---- MODULE Spec2Model ----
(***************************************************************************)
(* Model of lfs/util.go: the progress-reporting reader (CallbackReader,    *)
(* CopyWithCallback), the progress-log callback factory (CopyCallbackFile) *)
(* and the include/exclude path filter                                     *)
(* (FilenamePassesIncludeExcludeFilter).                                   *)
(*                                                                         *)
(* Strings that the code inspects character by character (paths, glob      *)
(* patterns) are sequences of one-character strings.                       *)
(***************************************************************************)
EXTENDS Integers, Sequences, FiniteSets, TLC

\* ------------------------------------------------------------------ bounds

\* Longest candidate filename handed to the filter.
MaxPathLen == 3
\* Largest number of patterns in the include list plus the exclude list.
MaxPats == 2

\* Characters of candidate filenames.
PathChars == {"a", "/", ".", "["}

\* Glob patterns handed to the filter: literals, wildcards, directory names
\* and patterns with an unterminated character class (malformed).
Patterns ==
    { <<"a">>, <<"*">>, <<"[">>, <<"a", "/", "a">>, <<"a", "/", "*">>,
      <<"a", "[">> }

BoundedSeq(S, n) == UNION { [1..k -> S] : k \in 0..n }

Paths == BoundedSeq(PathChars, MaxPathLen)

\* Pairs of pattern lists with at most MaxPats patterns in total.
PatternLists ==
    { pl \in BoundedSeq(Patterns, MaxPats) \X BoundedSeq(Patterns, MaxPats) :
        Len(pl[1]) + Len(pl[2]) <= MaxPats }

\* --------------------------------------------------- progress-side inputs

\* Most Read calls a copy or a client makes, and most direct invocations of
\* a callback.
MaxReads == 3
\* Most bytes one Read returns.
MaxChunk == 2

\* Declared total sizes (an estimate: it may be smaller than what is read).
TotalSizes == {0, 3}
\* The total a client passes when it calls the log callback directly.
DirectTotals == {3}

Events == {"", "download"}
Filenames == {"", "a.bin"}
FileIndexes == {1}
FileTotals == {2}
Letters == {"c"}

\* Values of GIT_LFS_PROGRESS: unset, relative, absolute on Unix, absolute on
\* Windows.
LogPaths ==
    { <<>>, <<"l">>, <<"/", "l">>, <<"c", ":", "/", "l">>, <<"c", ":", "l">> }

\* Error values: nil, or a kind; an error made by wrapProgressError carries
\* the event, the log path and its cause.
ErrOf(kind) == [kind |-> kind, event |-> "", filename |-> <<>>, cause |-> "nil"]
NilErr == ErrOf("nil")

\* What an underlying reader's Read can return as its error.
ReadErrs == {NilErr, ErrOf("EOF"), ErrOf("ErrRead")}
\* What a user's callback can return.
CallbackRets == {NilErr, ErrOf("EOF"), ErrOf("ErrCallback")}

VARIABLES
    \* ---- FilenamePassesIncludeExcludeFilter: one call and its result
    fpc,            \* "idle" before the call, "done" after it
    filename,       \* argument filename
    includePaths,   \* argument includePaths
    excludePaths,   \* argument excludePaths
    passes,         \* the returned bool
    windows,        \* runtime.GOOS == "windows"
    \* ---- CopyCallbackFile: one call, its arguments and what it returned
    pc,             \* position of the client of the progress code
    event,          \* argument event
    cbFilename,     \* argument filename
    logPath,        \* Config.Getenv("GIT_LFS_PROGRESS")
    index,          \* argument index
    totalFiles,     \* argument totalFiles
    cb,             \* returned callback: "nil" or "file"
    file,           \* returned *os.File: "nil" or "open"
    factErr,        \* returned error
    mkdirCalls,     \* os.MkdirAll calls made
    openCalls,      \* os.OpenFile calls made
    log,            \* lines appended to the progress log
    prevWritten,    \* the callback's captured prevWritten
    \* ---- CallbackReader / CopyWithCallback
    C,              \* CallbackReader.C: "nil", "user" or "file"
    TotalSize,      \* CallbackReader.TotalSize
    ReadSize,       \* CallbackReader.ReadSize
    reads,          \* results of the underlying reader's Read calls, in order
    calls,          \* callback invocations, in order
    written,        \* io.Copy's count of bytes written
    copyErr         \* the error the copy returned

fvars == <<fpc, filename, includePaths, excludePaths, passes>>

factvars == <<event, cbFilename, logPath, index, totalFiles, cb, file, factErr,
              mkdirCalls, openCalls>>

copyvars == <<C, TotalSize, ReadSize, reads, calls, written, copyErr>>

vars == <<fvars, windows, pc, factvars, log, prevWritten, copyvars>>

\* --------------------------------------------------------- path/filepath

\* filepath.Separator
Separator(win) == IF win THEN "\\" ELSE "/"

\* os.IsPathSeparator
IsPathSeparator(c, win) == c = "/" \/ (win /\ c = "\\")

\* strings.HasPrefix
HasPrefix(s, prefix) ==
    Len(prefix) <= Len(s) /\ SubSeq(s, 1, Len(prefix)) = prefix

\* The elements of a path between separators (empty elements included).
RECURSIVE SplitPath(_, _, _)
SplitPath(s, cur, win) ==
    IF s = <<>> THEN <<cur>>
    ELSE IF IsPathSeparator(Head(s), win)
         THEN <<cur>> \o SplitPath(Tail(s), <<>>, win)
         ELSE SplitPath(Tail(s), Append(cur, Head(s)), win)

\* filepath.Clean's pass over the elements: empty and "." elements are
\* dropped, ".." removes the element before it, is dropped at the root and is
\* kept at the front of a relative path.
RECURSIVE CleanElems(_, _, _)
CleanElems(elems, out, rooted) ==
    IF elems = <<>> THEN out
    ELSE LET e    == Head(elems)
             rest == Tail(elems)
         IN  IF e = <<>> \/ e = <<".">>
             THEN CleanElems(rest, out, rooted)
             ELSE IF e = <<".", ".">>
             THEN IF out # <<>> /\ out[Len(out)] # <<".", ".">>
                  THEN CleanElems(rest, SubSeq(out, 1, Len(out) - 1), rooted)
                  ELSE IF rooted
                       THEN CleanElems(rest, out, rooted)
                       ELSE CleanElems(rest, Append(out, e), rooted)
             ELSE CleanElems(rest, Append(out, e), rooted)

RECURSIVE JoinPath(_, _)
JoinPath(elems, sep) ==
    IF elems = <<>> THEN <<>>
    ELSE IF Len(elems) = 1 THEN elems[1]
    ELSE elems[1] \o <<sep>> \o JoinPath(Tail(elems), sep)

\* filepath.Clean: the shortest equivalent path, written with the platform's
\* separator; "." for an empty result.
Clean(path, win) ==
    IF path = <<>> THEN <<".">>
    ELSE LET rooted == IsPathSeparator(path[1], win)
             body   == JoinPath(CleanElems(SplitPath(path, <<>>, win), <<>>, rooted),
                                Separator(win))
             out    == IF rooted THEN <<Separator(win)>> \o body ELSE body
         IN  IF out = <<>> THEN <<".">> ELSE out

\* A pattern with a '[' that no ']' closes is malformed (the patterns of this
\* model hold no ']').
BadPattern(pattern) == \E i \in 1..Len(pattern) : pattern[i] = "["

\* Glob matching of a well-formed pattern of literals and '*': '*' matches
\* any run of characters that are not the platform's separator.
RECURSIVE GlobMatch(_, _, _)
GlobMatch(pattern, name, win) ==
    IF pattern = <<>> THEN name = <<>>
    ELSE IF Head(pattern) = "*"
         THEN \/ GlobMatch(Tail(pattern), name, win)
              \/ /\ name # <<>>
                 /\ Head(name) # Separator(win)
                 /\ GlobMatch(pattern, Tail(name), win)
         ELSE /\ name # <<>>
              /\ Head(name) = Head(pattern)
              /\ GlobMatch(Tail(pattern), Tail(name), win)

\* filepath.Match: (matched, err). A malformed pattern yields
\* (false, ErrBadPattern).
Match(pattern, name, win) ==
    IF BadPattern(pattern)
    THEN [matched |-> FALSE, err |-> "ErrBadPattern"]
    ELSE [matched |-> GlobMatch(pattern, name, win), err |-> "nil"]

\* ------------------------------------ FilenamePassesIncludeExcludeFilter

\* Mutant: a pattern that filepath.Match reports as malformed counts as a
\* match.
MatchedErrIsMatch(pattern, name, win) ==
    Match(pattern, name, win).matched \/ Match(pattern, name, win).err # "nil"

\* `matched, _ = filepath.Match(pattern, name)`: the error is discarded.
MatchedIgnoringErr(pattern, name, win) == Match(pattern, name, win).matched

\* Mutant: the directory-prefix test of the include loop leaves out the
\* separator.
RECURSIVE IncludeLoopPrefixNoSep(_, _, _, _, _)
IncludeLoopPrefixNoSep(incs, i, fname, cleanfilename, win) ==
    IF i > Len(incs) THEN FALSE
    ELSE LET inc == incs[i]
             m1  == MatchedIgnoringErr(inc, fname, win)
             m2  == IF ~m1 /\ win
                    THEN MatchedIgnoringErr(inc, cleanfilename, win)
                    ELSE m1
             m3  == IF ~m2 THEN HasPrefix(cleanfilename, inc) ELSE m2
         IN  IF m3 THEN TRUE
             ELSE IncludeLoopPrefixNoSep(incs, i + 1, fname, cleanfilename, win)

\* Mutant: the include loop has no break, so the last pattern decides.
RECURSIVE IncludeLoopNoBreak(_, _, _, _, _)
IncludeLoopNoBreak(incs, i, fname, cleanfilename, win) ==
    IF i > Len(incs) THEN FALSE
    ELSE LET inc == incs[i]
             m1  == MatchedIgnoringErr(inc, fname, win)
             m2  == IF ~m1 /\ win
                    THEN MatchedIgnoringErr(inc, cleanfilename, win)
                    ELSE m1
             m3  == IF ~m2
                    THEN HasPrefix(cleanfilename, inc \o <<Separator(win)>>)
                    ELSE m2
         IN  IF i = Len(incs) THEN m3
             ELSE IncludeLoopNoBreak(incs, i + 1, fname, cleanfilename, win)

\* The include loop (lines 105-121), from pattern i on: whether some include
\* pattern matched.
RECURSIVE IncludeLoop(_, _, _, _, _)
IncludeLoop(incs, i, fname, cleanfilename, win) ==
    IF i > Len(incs) THEN FALSE
    ELSE LET inc == incs[i]
             m1  == MatchedIgnoringErr(inc, fname, win)
             m2  == IF ~m1 /\ win
                    THEN MatchedIgnoringErr(inc, cleanfilename, win)
                    ELSE m1
             m3  == IF ~m2
                    THEN HasPrefix(cleanfilename, inc \o <<Separator(win)>>)
                    ELSE m2
         IN  IF m3 THEN TRUE
             ELSE IncludeLoop(incs, i + 1, fname, cleanfilename, win)

\* Mutant: the exclude loop without its directory-prefix test.
RECURSIVE ExcludeLoopNoPrefix(_, _, _, _, _)
ExcludeLoopNoPrefix(excs, i, fname, cleanfilename, win) ==
    IF i > Len(excs) THEN FALSE
    ELSE LET ex == excs[i]
             m1 == MatchedIgnoringErr(ex, fname, win)
             m2 == IF ~m1 /\ win
                   THEN MatchedIgnoringErr(ex, cleanfilename, win)
                   ELSE m1
         IN  IF m2 THEN TRUE
             ELSE ExcludeLoopNoPrefix(excs, i + 1, fname, cleanfilename, win)

\* The exclude loop (lines 128-142), from pattern i on: whether some exclude
\* pattern rejects the file.
RECURSIVE ExcludeLoop(_, _, _, _, _)
ExcludeLoop(excs, i, fname, cleanfilename, win) ==
    IF i > Len(excs) THEN FALSE
    ELSE LET ex == excs[i]
             m1 == MatchedIgnoringErr(ex, fname, win)
             m2 == IF ~m1 /\ win
                   THEN MatchedIgnoringErr(ex, cleanfilename, win)
                   ELSE m1
         IN  IF m2 THEN TRUE
             ELSE IF HasPrefix(cleanfilename, ex \o <<Separator(win)>>)
                  THEN TRUE
                  ELSE ExcludeLoop(excs, i + 1, fname, cleanfilename, win)

FilenamePassesIncludeExcludeFilter(fname, incs, excs, win) ==
    IF Len(incs) = 0 /\ Len(excs) = 0 THEN TRUE
    ELSE LET cleanfilename == Clean(fname, win)
         IN  IF Len(incs) > 0 /\ ~IncludeLoop(incs, 1, fname, cleanfilename, win)
             THEN FALSE
             ELSE IF Len(excs) > 0 /\ ExcludeLoop(excs, 1, fname, cleanfilename, win)
                  THEN FALSE
                  ELSE TRUE

\* One call of the filter on some filename, pattern lists and platform.
FilterCall ==
    /\ fpc = "idle"
    /\ \E f \in Paths, pl \in PatternLists :
          /\ filename' = f
          /\ includePaths' = pl[1]
          /\ excludePaths' = pl[2]
          /\ passes' = FilenamePassesIncludeExcludeFilter(f, pl[1], pl[2], windows)
    /\ fpc' = "done"
    /\ UNCHANGED <<windows, pc, factvars, log, prevWritten, copyvars>>

InitFilter ==
    /\ fpc = "idle"
    /\ filename = <<>>
    /\ includePaths = <<>>
    /\ excludePaths = <<>>
    /\ passes = FALSE
    /\ windows \in BOOLEAN
    /\ pc = "start"
    /\ event = ""
    /\ cbFilename = ""
    /\ logPath = <<>>
    /\ index = 0
    /\ totalFiles = 0
    /\ cb = "nil"
    /\ file = "nil"
    /\ factErr = NilErr
    /\ mkdirCalls = 0
    /\ openCalls = 0
    /\ log = <<>>
    /\ prevWritten = 0
    /\ C = "nil"
    /\ TotalSize = 0
    /\ ReadSize = 0
    /\ reads = <<>>
    /\ calls = <<>>
    /\ written = 0
    /\ copyErr = NilErr

NextFilter == FilterCall

SpecFilter == InitFilter /\ [][NextFilter]_vars

\* ------------------------------------------------------ CopyCallbackFile

\* filepath.IsAbs: a leading '/' on Unix; on Windows a drive letter and ':'
\* followed by a separator (UNC volumes, five characters and more, lie beyond
\* LogPaths).
IsAbs(path, win) ==
    IF win
    THEN /\ Len(path) >= 3
         /\ path[1] \in Letters
         /\ path[2] = ":"
         /\ IsPathSeparator(path[3], win)
    ELSE HasPrefix(path, <<"/">>)

\* wrapProgressError
wrapProgressError(err, ev, fn) ==
    IF err # NilErr
    THEN [kind |-> "progress", event |-> ev, filename |-> fn, cause |-> err.kind]
    ELSE NilErr

\* Mutant: the directory is created before the path is checked.
CopyCallbackFileResultMkdirFirst(ev, fn, lp, win, mkdirOK, openOK) ==
    IF Len(lp) = 0 \/ fn = "" \/ ev = ""
    THEN [cb |-> "nil", file |-> "nil", err |-> NilErr, mkdir |-> 0, open |-> 0]
    ELSE IF ~mkdirOK
    THEN [cb |-> "nil", file |-> "nil",
          err |-> wrapProgressError(ErrOf("ErrMkdir"), ev, lp),
          mkdir |-> 1, open |-> 0]
    ELSE IF ~IsAbs(lp, win)
    THEN [cb |-> "nil", file |-> "nil", err |-> ErrOf("config"),
          mkdir |-> 1, open |-> 0]
    ELSE IF ~openOK
    THEN [cb |-> "nil", file |-> "nil",
          err |-> wrapProgressError(ErrOf("ErrOpen"), ev, lp),
          mkdir |-> 1, open |-> 1]
    ELSE [cb |-> "file", file |-> "open", err |-> NilErr, mkdir |-> 1, open |-> 1]

\* What CopyCallbackFile returns and which system calls it makes, given
\* whether os.MkdirAll and os.OpenFile succeed.
CopyCallbackFileResult(ev, fn, lp, win, mkdirOK, openOK) ==
    IF Len(lp) = 0 \/ fn = "" \/ ev = ""
    THEN [cb |-> "nil", file |-> "nil", err |-> NilErr, mkdir |-> 0, open |-> 0]
    ELSE IF ~IsAbs(lp, win)
    THEN [cb |-> "nil", file |-> "nil", err |-> ErrOf("config"),
          mkdir |-> 0, open |-> 0]
    ELSE IF ~mkdirOK
    THEN [cb |-> "nil", file |-> "nil",
          err |-> wrapProgressError(ErrOf("ErrMkdir"), ev, lp),
          mkdir |-> 1, open |-> 0]
    ELSE IF ~openOK
    THEN [cb |-> "nil", file |-> "nil",
          err |-> wrapProgressError(ErrOf("ErrOpen"), ev, lp),
          mkdir |-> 1, open |-> 1]
    ELSE [cb |-> "file", file |-> "open", err |-> NilErr, mkdir |-> 1, open |-> 1]

CopyCallbackFile ==
    /\ pc = "start"
    /\ \E ev \in Events, fn \in Filenames, lp \in LogPaths,
          ix \in FileIndexes, tf \in FileTotals, mkdirOK \in BOOLEAN,
          openOK \in BOOLEAN :
          LET r == CopyCallbackFileResult(ev, fn, lp, windows, mkdirOK, openOK)
          IN  /\ event' = ev
              /\ cbFilename' = fn
              /\ logPath' = lp
              /\ index' = ix
              /\ totalFiles' = tf
              /\ cb' = r.cb
              /\ file' = r.file
              /\ factErr' = r.err
              /\ mkdirCalls' = r.mkdir
              /\ openCalls' = r.open
    /\ prevWritten' = 0
    /\ pc' = "made"
    /\ UNCHANGED <<fvars, windows, log, copyvars>>

\* Mutant: the callback never records what it wrote (prevWritten stays).
LogCallbackNoRecord(total, wr, current, prev, writeOK, syncOK) ==
    IF wr # prev
    THEN [lines |-> IF writeOK
                    THEN << [event |-> event, index |-> index,
                             totalFiles |-> totalFiles, written |-> wr,
                             total |-> total, filename |-> cbFilename] >>
                    ELSE <<>>,
          prevWritten |-> prev,
          ret |-> wrapProgressError(IF writeOK THEN NilErr ELSE ErrOf("ErrWrite"),
                                    event, logPath),
          wrote |-> TRUE]
    ELSE [lines |-> <<>>, prevWritten |-> prev, ret |-> NilErr, wrote |-> FALSE]

\* The callback CopyCallbackFile returns (lines 70-79), called with
\* (total, wr, current) when its prevWritten is prev; writeOK and syncOK say
\* whether file.Write and file.Sync succeed. The result of file.Sync is
\* dropped. A failed write is taken to append nothing.
LogCallback(total, wr, current, prev, writeOK, syncOK) ==
    IF wr # prev
    THEN [lines |-> IF writeOK
                    THEN << [event |-> event, index |-> index,
                             totalFiles |-> totalFiles, written |-> wr,
                             total |-> total, filename |-> cbFilename] >>
                    ELSE <<>>,
          prevWritten |-> wr,
          ret |-> wrapProgressError(IF writeOK THEN NilErr ELSE ErrOf("ErrWrite"),
                                    event, logPath),
          wrote |-> TRUE]
    ELSE [lines |-> <<>>, prevWritten |-> prev, ret |-> NilErr, wrote |-> FALSE]

\* One invocation of callback c: what it returns and what it does to the log.
\* A user callback returns userRet and touches nothing.
Invoke(c, total, sofar, n, prev, userRet, writeOK, syncOK) ==
    IF c = "file"
    THEN LogCallback(total, sofar, n, prev, writeOK, syncOK)
    ELSE [lines |-> <<>>, prevWritten |-> prev, ret |-> userRet, wrote |-> FALSE]

\* The record of one callback invocation kept in calls.
CallRecord(c, total, sofar, n, prev, r, readNo, writeOK, syncOK) ==
    [total |-> total, sofar |-> sofar, n |-> n, ret |-> r.ret, read |-> readNo,
     prev |-> prev, logged |-> r.lines # <<>>,
     writeFailed |-> c = "file" /\ r.wrote /\ ~writeOK,
     syncFailed |-> c = "file" /\ r.wrote /\ ~syncOK]

\* A client calls the callback it got from CopyCallbackFile directly, with
\* any cumulative count (the callback does not read its third argument).
InvokeCallback ==
    /\ pc \in {"made", "invoking"}
    /\ cb = "file"
    /\ Len(calls) < MaxReads
    /\ \E total \in DirectTotals, wr \in 0..MaxChunk, writeOK \in BOOLEAN,
          syncOK \in BOOLEAN :
          LET r == Invoke("file", total, wr, 0, prevWritten, NilErr, writeOK, syncOK)
          IN  /\ r.wrote \/ (writeOK /\ syncOK)
              /\ log' = log \o r.lines
              /\ prevWritten' = r.prevWritten
              /\ calls' = Append(calls,
                    CallRecord("file", total, wr, 0, prevWritten, r, 0,
                               writeOK, syncOK))
    /\ pc' = "invoking"
    /\ UNCHANGED <<fvars, windows, factvars, C, TotalSize, ReadSize, reads,
                   written, copyErr>>

\* ------------------------------------------ CallbackReader, CopyWithCallback

\* Mutant: the callback is also called after a failed underlying read.
CallsBackOnErr(c, err) == c # "nil"

\* Whether CallbackReader.Read calls w.C after an underlying read that
\* returned err.
CallsBack(c, err) == err = NilErr /\ c # "nil"

\* Mutant: ReadSize is assigned instead of increased.
NewReadSizeAssign(readSize, n) == IF n > 0 THEN n ELSE readSize

\* CallbackReader.Read's new ReadSize after an underlying read of n bytes.
NewReadSize(readSize, n) == IF n > 0 THEN readSize + n ELSE readSize

\* Mutant: Read drops what the callback returned.
ReadErrDropsCallback(c, err, inv) == err

\* CallbackReader.Read: the underlying reader returned (n, err); inv is the
\* outcome of the callback invocation, used when the callback is called.
ReadErr(c, err, inv) == IF CallsBack(c, err) THEN inv.ret ELSE err

\* One iteration of io.Copy's loop after src.Read returned (nr, er): the
\* bytes are written first, then the read's error ends the copy. wres is the
\* writer's outcome: "ok", "err" (an error after nw bytes) or "short" (nw
\* bytes and no error).
CopyIteration(nr, er, wres, nw) ==
    IF nr > 0 /\ wres = "err"
    THEN [written |-> nw, done |-> TRUE, err |-> ErrOf("ErrWrite")]
    ELSE IF nr > 0 /\ wres = "short"
    THEN [written |-> nw, done |-> TRUE, err |-> ErrOf("ErrShortWrite")]
    ELSE IF er # NilErr
    THEN [written |-> nr, done |-> TRUE,
          err |-> IF er = ErrOf("EOF") THEN NilErr ELSE er]
    ELSE [written |-> nr, done |-> FALSE, err |-> NilErr]

\* The pairs (outcome, bytes written) a writer can produce for nr bytes.
WriteOutcomes(nr) ==
    { <<"ok", nr>> } \cup { <<"err", k>> : k \in 0..nr }
                     \cup { <<"short", k>> : k \in 0..(nr - 1) }

\* CopyWithCallback is called with no callback, with a user's callback, or
\* with the callback CopyCallbackFile returned.
CopyWithCallback ==
    /\ \/ /\ pc = "start"
          /\ C' \in {"nil", "user"}
       \/ /\ pc = "made"
          /\ cb = "file"
          /\ C' = cb
    /\ TotalSize' \in TotalSizes
    /\ ReadSize' = 0
    /\ reads' = <<>>
    /\ calls' = <<>>
    /\ written' = 0
    /\ copyErr' = NilErr
    /\ pc' = IF C' = "nil" THEN "plain" ELSE "copying"
    /\ UNCHANGED <<fvars, windows, factvars, log, prevWritten>>

\* io.Copy(writer, cbReader): one iteration, reading through CallbackReader.
CopyStep ==
    /\ pc = "copying"
    /\ Len(reads) < MaxReads
    /\ \E n \in 0..MaxChunk, err \in ReadErrs, userRet \in CallbackRets,
          writeOK \in BOOLEAN, syncOK \in BOOLEAN :
          LET rs   == NewReadSize(ReadSize, n)
              inv  == Invoke(C, TotalSize, rs, n, prevWritten, userRet,
                             writeOK, syncOK)
              call == CallsBack(C, err)
              er   == ReadErr(C, err, inv)
          IN  /\ C = "user" \/ userRet = NilErr
              /\ (C = "file" /\ call /\ inv.wrote) \/ (writeOK /\ syncOK)
              /\ call \/ userRet = NilErr
              /\ ReadSize' = rs
              /\ reads' = Append(reads, [n |-> n, err |-> err])
              /\ calls' = IF call
                          THEN Append(calls,
                                 CallRecord(C, TotalSize, rs, n, prevWritten, inv,
                                            Len(reads) + 1, writeOK, syncOK))
                          ELSE calls
              /\ log' = IF call THEN log \o inv.lines ELSE log
              /\ prevWritten' = IF call THEN inv.prevWritten ELSE prevWritten
              /\ \E w \in WriteOutcomes(n) :
                    LET it == CopyIteration(n, er, w[1], w[2])
                    IN  /\ written' = written + it.written
                        /\ copyErr' = it.err
                        /\ pc' = IF it.done THEN "returned" ELSE "copying"
    /\ UNCHANGED <<fvars, windows, factvars, C, TotalSize>>

\* io.Copy(writer, reader) when the callback is nil: no CallbackReader is
\* built and nothing is counted.
PlainCopyStep ==
    /\ pc = "plain"
    /\ Len(reads) < MaxReads
    /\ \E n \in 0..MaxChunk, err \in ReadErrs :
          /\ reads' = Append(reads, [n |-> n, err |-> err])
          /\ \E w \in WriteOutcomes(n) :
                LET it == CopyIteration(n, err, w[1], w[2])
                IN  /\ written' = written + it.written
                    /\ copyErr' = it.err
                    /\ pc' = IF it.done THEN "returned" ELSE "plain"
    /\ UNCHANGED <<fvars, windows, factvars, log, prevWritten, C, TotalSize,
                   ReadSize, calls>>

\* A client builds a CallbackReader itself (C may be nil) ...
NewCallbackReader ==
    /\ pc = "start"
    /\ C' \in {"nil", "user"}
    /\ TotalSize' \in TotalSizes
    /\ ReadSize' = 0
    /\ pc' = "reading"
    /\ UNCHANGED <<fvars, windows, factvars, log, prevWritten, reads, calls,
                   written, copyErr>>

\* ... and calls its Read; copyErr holds what Read returned.
Read ==
    /\ pc = "reading"
    /\ Len(reads) < MaxReads
    /\ \E n \in 0..MaxChunk, err \in ReadErrs, userRet \in CallbackRets :
          LET rs   == NewReadSize(ReadSize, n)
              inv  == Invoke(C, TotalSize, rs, n, prevWritten, userRet, TRUE, TRUE)
              call == CallsBack(C, err)
          IN  /\ call \/ userRet = NilErr
              /\ ReadSize' = rs
              /\ reads' = Append(reads, [n |-> n, err |-> err])
              /\ calls' = IF call
                          THEN Append(calls,
                                 CallRecord(C, TotalSize, rs, n, prevWritten, inv,
                                            Len(reads) + 1, TRUE, TRUE))
                          ELSE calls
              /\ copyErr' = ReadErr(C, err, inv)
    /\ UNCHANGED <<fvars, windows, factvars, log, prevWritten, C, TotalSize,
                   written, pc>>

Init == InitFilter

Next ==
    \/ CopyCallbackFile
    \/ InvokeCallback
    \/ CopyWithCallback
    \/ CopyStep
    \/ PlainCopyStep
    \/ NewCallbackReader
    \/ Read

Spec == Init /\ [][Next]_vars

\* ------------------------------------------------------------ properties

\* The bytes returned by the first k underlying reads.
RECURSIVE SumBytes(_, _)
SumBytes(rs, k) == IF k = 0 THEN 0 ELSE SumBytes(rs, k - 1) + rs[k].n

\* The positions, in order, of the underlying reads that returned no error.
RECURSIVE OkReads(_, _)
OkReads(rs, k) ==
    IF k = 0 THEN <<>>
    ELSE IF rs[k].err = NilErr
         THEN Append(OkReads(rs, k - 1), k)
         ELSE OkReads(rs, k - 1)

\* States of a copy that CopyWithCallback runs through a CallbackReader.
InCallbackCopy == pc \in {"copying", "returned"} /\ C # "nil"

\* States in which calls holds invocations of the progress-log callback.
LogCallbackCalls == pc = "invoking" \/ (InCallbackCopy /\ C = "file")

\* C1 as stated: after a copy with a callback, ReadSize is the sum of the
\* bytes the underlying reads returned and the callback was invoked once per
\* underlying read, in order, with (T, bytes read up to and including that
\* read, bytes of that read).
C1_OneCallbackPerRead ==
    (pc = "returned" /\ C # "nil") =>
        /\ ReadSize = SumBytes(reads, Len(reads))
        /\ Len(calls) = Len(reads)
        /\ \A i \in 1..Len(reads) :
              /\ calls[i].total = TotalSize
              /\ calls[i].sofar = SumBytes(reads, i)
              /\ calls[i].n = reads[i].n

\* C1 amended: during and after a copy with a callback, ReadSize is the sum
\* of the bytes all underlying reads returned, and the callback was invoked
\* once per underlying read that returned no error, in read order, with
\* (T, bytes read up to and including that read, bytes of that read); a read
\* that returned an error (end of data included) is counted and not reported.
C1_OneCallbackPerSuccessfulRead ==
    InCallbackCopy =>
        LET ok == OkReads(reads, Len(reads))
        IN  /\ ReadSize = SumBytes(reads, Len(reads))
            /\ Len(calls) = Len(ok)
            /\ \A k \in 1..Len(ok) :
                  /\ calls[k].total = TotalSize
                  /\ calls[k].sofar = SumBytes(reads, ok[k])
                  /\ calls[k].n = reads[ok[k]].n

\* C1 witness: a copy of several chunks that ended at end of data, with more
\* bytes read than the declared total.
C1_Witness ==
    /\ pc = "returned"
    /\ C = "user"
    /\ copyErr = NilErr
    /\ Len(reads) = 3
    /\ Len(calls) = 2
    /\ reads[3].err = ErrOf("EOF")
    /\ ReadSize > TotalSize
    /\ TotalSize > 0

\* C2 as stated: when an invocation of the callback returned a failure (an
\* error other than io.EOF, io.Copy's end-of-data signal), the copy has
\* returned that failure, the read that triggered the invocation is the last
\* read issued, and ReadSize counts every read issued.
C2_CallbackFailureIsReturned ==
    InCallbackCopy =>
        \A k \in 1..Len(calls) :
            calls[k].ret \notin {NilErr, ErrOf("EOF")} =>
                /\ pc = "returned"
                /\ copyErr = calls[k].ret
                /\ calls[k].read = Len(reads)
                /\ ReadSize = SumBytes(reads, Len(reads))

\* C2 amended: when an invocation of the callback returned a failure, the
\* copy has returned, the read that triggered the invocation is the last read
\* issued and ReadSize counts every read issued; the copy returned that
\* failure, except that it returned the write failure when writing that
\* read's bytes failed or fell short, and returned no error when the failure
\* is io.EOF.
C2_CallbackFailureStopsCopy ==
    InCallbackCopy =>
        \A k \in 1..Len(calls) :
            calls[k].ret # NilErr =>
                /\ pc = "returned"
                /\ calls[k].read = Len(reads)
                /\ ReadSize = SumBytes(reads, Len(reads))
                /\ \/ /\ copyErr \in {ErrOf("ErrWrite"), ErrOf("ErrShortWrite")}
                      /\ reads[Len(reads)].n > 0
                   \/ /\ calls[k].ret = ErrOf("EOF")
                      /\ copyErr = NilErr
                   \/ /\ calls[k].ret # ErrOf("EOF")
                      /\ copyErr = calls[k].ret

\* C2 witness: the callback failed on its second invocation and the copy
\* returned that failure.
C2_Witness ==
    /\ pc = "returned"
    /\ C = "user"
    /\ Len(calls) = 2
    /\ Len(reads) = 2
    /\ calls[1].ret = NilErr
    /\ calls[2].ret = ErrOf("ErrCallback")
    /\ copyErr = ErrOf("ErrCallback")
    /\ ReadSize = reads[1].n + reads[2].n
    /\ reads[2].n > 0

\* C3: an invocation of the progress-log callback whose cumulative count
\* equals the last value the callback recorded appends no line and returns no
\* failure; so the second of two consecutive invocations with the same
\* cumulative count appends no line.
C3_UnchangedCountWritesNothing ==
    LogCallbackCalls =>
        \A k \in 1..Len(calls) :
            /\ calls[k].sofar = calls[k].prev =>
                  ~calls[k].logged /\ calls[k].ret = NilErr
            /\ (k > 1 /\ calls[k].sofar = calls[k - 1].sofar) =>
                  ~calls[k].logged /\ calls[k].ret = NilErr

\* C3 witness: a line was written for a cumulative count, and the next
\* invocation came with the same count.
C3_Witness ==
    /\ pc = "invoking"
    /\ Len(calls) = 2
    /\ calls[1].logged
    /\ calls[1].sofar > 0
    /\ calls[2].sofar = calls[1].sofar
    /\ Len(log) = 1

\* C7 as stated: every call with a relative configured path returns the
\* configuration error and makes no MkdirAll or OpenFile call.
C7_RelativePathFails ==
    (pc = "made" /\ logPath # <<>> /\ ~IsAbs(logPath, windows)) =>
        /\ factErr = ErrOf("config")
        /\ mkdirCalls = 0
        /\ openCalls = 0

\* C7 amended: every call with a non-empty event, a non-empty filename and a
\* relative configured path returns the configuration error and makes no
\* MkdirAll or OpenFile call (with an empty event or filename the call returns
\* no callback, no file and no error, whatever the path).
C7_RelativePathFailsWhenEnabled ==
    (/\ pc = "made"
     /\ logPath # <<>>
     /\ ~IsAbs(logPath, windows)
     /\ event # ""
     /\ cbFilename # "") =>
        /\ factErr = ErrOf("config")
        /\ cb = "nil"
        /\ file = "nil"
        /\ mkdirCalls = 0
        /\ openCalls = 0

\* C7 witness: a call with event, filename and a relative path.
C7_Witness ==
    /\ pc = "made"
    /\ logPath = <<"l">>
    /\ event = "download"
    /\ cbFilename = "a.bin"
    /\ factErr = ErrOf("config")

\* C8: every invocation of the progress-log callback in which the write or
\* the sync failed returned a failure carrying the event and the log path,
\* and the copy that made the invocation has returned.
C8_WriteOrSyncFailureIsReturned ==
    LogCallbackCalls =>
        \A k \in 1..Len(calls) :
            (calls[k].writeFailed \/ calls[k].syncFailed) =>
                /\ calls[k].ret.kind = "progress"
                /\ calls[k].ret.event = event
                /\ calls[k].ret.filename = logPath
                /\ InCallbackCopy => pc = "returned"

\* C9: a Read of a CallbackReader invokes the callback exactly when there is
\* a callback and the underlying read returned no error, and the invocation
\* gets the ReadSize already increased by the bytes of that read.
C9_CallbackIffReadSucceeded ==
    [][(Len(reads') = Len(reads) + 1 /\ pc \in {"reading", "copying"}) =>
          LET r      == reads'[Len(reads')]
              called == Len(calls') = Len(calls) + 1
          IN  /\ called <=> (C # "nil" /\ r.err = NilErr)
              /\ ~called => calls' = calls
              /\ ReadSize' = ReadSize + r.n
              /\ called =>
                    /\ SubSeq(calls', 1, Len(calls)) = calls
                    /\ calls'[Len(calls')].total = TotalSize
                    /\ calls'[Len(calls')].sofar = ReadSize + r.n
                    /\ calls'[Len(calls')].n = r.n]_vars

\* C9 witness: a successful zero-byte read was reported, a read that
\* returned bytes together with end of data was not.
C9_Witness ==
    /\ pc = "reading"
    /\ C = "user"
    /\ Len(reads) = 2
    /\ reads[1] = [n |-> 0, err |-> NilErr]
    /\ reads[2] = [n |-> 2, err |-> ErrOf("EOF")]
    /\ Len(calls) = 1
    /\ calls[1].n = 0
    /\ ReadSize = 2

\* ---- the path filter

\* Pattern p matches the filename of the call by one of the three rules:
\* glob match of the filename, on Windows glob match of the cleaned filename,
\* or the cleaned filename starts with p and a separator.
GlobRule(p) ==
    \/ Match(p, filename, windows).matched
    \/ windows /\ Match(p, Clean(filename, windows), windows).matched

PrefixRule(p) ==
    HasPrefix(Clean(filename, windows), p \o <<Separator(windows)>>)

RuleMatch(p) == GlobRule(p) \/ PrefixRule(p)

Malformed(p) == Match(p, filename, windows).err # "nil"

\* C4: a filename that matches some exclude pattern by one of the three rules
\* is rejected, whatever the include list.
C4_ExcludeWins ==
    (fpc = "done" /\ \E j \in 1..Len(excludePaths) : RuleMatch(excludePaths[j]))
        => ~passes

\* C4 witness: a filename under an included directory that an exclude
\* pattern matches.
C4_Witness ==
    /\ fpc = "done"
    /\ filename = <<"a", "/", "a">>
    /\ includePaths = << <<"a">> >>
    /\ excludePaths = << <<"a", "/", "a">> >>
    /\ RuleMatch(includePaths[1])
    /\ ~passes

\* C5: with a non-empty include list, a filename that matches no include
\* pattern by any of the three rules is rejected, whatever the exclude list.
C5_NoIncludeMatchRejects ==
    (/\ fpc = "done"
     /\ Len(includePaths) > 0
     /\ \A i \in 1..Len(includePaths) : ~RuleMatch(includePaths[i]))
        => ~passes

\* C5 witness: one include pattern, no exclude pattern, no match.
C5_Witness ==
    /\ fpc = "done"
    /\ filename = <<"a", "a">>
    /\ includePaths = << <<"a", "/", "*">> >>
    /\ excludePaths = <<>>
    /\ ~passes

\* C6: a filename is admitted when the include list is empty or some include
\* pattern matches it by one of the three rules, and no exclude pattern
\* matches it.
C6_SurvivorsAdmitted ==
    (/\ fpc = "done"
     /\ \/ Len(includePaths) = 0
        \/ \E i \in 1..Len(includePaths) : RuleMatch(includePaths[i])
     /\ \A j \in 1..Len(excludePaths) : ~RuleMatch(excludePaths[j]))
        => passes

\* C6 witness: admitted through the directory-prefix rule alone, past an
\* exclude pattern that does not match.
C6_Witness ==
    /\ fpc = "done"
    /\ ~windows
    /\ filename = <<"a", "/", "a">>
    /\ includePaths = << <<"a">> >>
    /\ excludePaths = << <<"*">> >>
    /\ ~GlobRule(includePaths[1])
    /\ passes

\* C10 as stated: a malformed include pattern never admits a filename and a
\* malformed exclude pattern never rejects one.
C10_MalformedNeverMatches ==
    fpc = "done" =>
        /\ (/\ Len(includePaths) > 0
            /\ \A i \in 1..Len(includePaths) : Malformed(includePaths[i]))
              => ~passes
        /\ (/\ Len(includePaths) = 0
            /\ \A j \in 1..Len(excludePaths) : Malformed(excludePaths[j]))
              => passes

\* Pattern p matches the filename of the call when the glob evaluation of a
\* malformed pattern counts as a non-match.
EffectiveMatch(p) == (~Malformed(p) /\ GlobRule(p)) \/ PrefixRule(p)

\* C10 amended: the filter always returns a result, the one it returns when
\* the glob evaluation of every malformed pattern is an ordinary non-match: a
\* malformed pattern admits (include) or rejects (exclude) a filename only by
\* the directory-prefix rule, when the cleaned filename starts with the
\* pattern and a separator.
C10_MalformedMatchesOnlyAsPrefix ==
    fpc = "done" =>
        passes = (/\ \/ Len(includePaths) = 0
                     \/ \E i \in 1..Len(includePaths) :
                           EffectiveMatch(includePaths[i])
                  /\ \A j \in 1..Len(excludePaths) :
                        ~EffectiveMatch(excludePaths[j]))

\* C10 witness: a malformed include pattern admits a file of the directory
\* it names.
C10_Witness ==
    /\ fpc = "done"
    /\ filename = <<"[", "/", "a">>
    /\ includePaths = << <<"[">> >>
    /\ excludePaths = <<>>
    /\ Malformed(includePaths[1])
    /\ passes

====
